---- MODULE Spec2Model ----
(***************************************************************************)
(* Buddy page allocator of src/buddy.c: init_page, alloc_pages,            *)
(* return_pages, query_ranks, query_page_counts.                           *)
(*                                                                         *)
(* The allocator state is the five statics of buddy.c plus the first word  *)
(* of every page of the managed region, where a free block keeps its       *)
(* intrusive `next' pointer.  Addresses are integers, NULL is 0.           *)
(*                                                                         *)
(* The source fixes MAX_RANK = 16 and MAX_PAGES = 32768 = 2^(MAX_RANK-1).  *)
(* The model keeps that relation and scales MAX_RANK down so that the      *)
(* whole state space can be enumerated.                                    *)
(***************************************************************************)
EXTENDS Integers, Sequences, FiniteSets, TLC

\* ---------------------------------------------------------------- bounds
\* Largest rank (16 in the source, scaled).
MAX_RANK == 3
\* Largest page count a caller passes to init_page.
MaxN == 4
\* Calls outside the caller's contract (a second init_page, a page count
\* <= 0, a free of an address that is not an outstanding block) that one
\* behaviour of SpecAny may contain.
MaxBad == 1
\* Calls one behaviour of SpecAny may contain in all.
MaxCalls == 6

\* ------------------------------------------------------------- constants
NULL == 0
PAGE_SIZE == 4096
MAX_PAGES == 2 ^ (MAX_RANK - 1)

Min(a, b) == IF a < b THEN a ELSE b

\* Region bases a caller may pass: two disjoint regions.  Neither is itself a
\* multiple of PAGE_SIZE: pages are aligned relative to the base.
HomeBase == PAGE_SIZE + 8
OtherBase == PAGE_SIZE * (2 * MAX_PAGES + 2) + 16
Bases == {HomeBase, OtherBase}

VARIABLES
    base_addr,       \* static void *base_addr
    total_pages,     \* static int total_pages
    free_lists,      \* static free_block_t *free_lists[MAX_RANK + 1]
    page_rank_map,   \* static unsigned char page_rank_map[MAX_PAGES]
    page_allocated,  \* static unsigned char page_allocated[MAX_PAGES]
    mem,             \* address |-> the `next' word stored there (written words only)
    halt,            \* "no", or why the last call had no defined outcome
    ret,             \* the last call: its pointer and integer argument, its result
    outstanding,     \* ghost: blocks handed out by alloc_pages, not yet returned
    freed,           \* ghost: addresses returned, and in no block handed out since
    ncalls,          \* ghost: init_page calls made, calls outside the contract made, calls counted
    allocs1,         \* ghost: alloc_pages(1) calls since init_page, NoRun after any other call
    mark,            \* ghost: the free counts at a marked state, the blocks handed out since
    thr,             \* per calling thread: where its call stands and the call's locals
    lock             \* the caller-side mutex: the set of threads inside it

vars == <<base_addr, total_pages, free_lists, page_rank_map, page_allocated,
          mem, halt, ret, outstanding, freed, ncalls, allocs1, mark, thr, lock>>

\* ------------------------------------------------------- C arithmetic
\* C integer division truncates toward zero.
CDiv(a, b) == IF a >= 0 THEN a \div b ELSE -((-a) \div b)
CMod(a, b) == a - b * CDiv(a, b)

pages_for_rank(rank) == 2 ^ (rank - 1)

page_index(s, p) == CDiv(p - s.base, PAGE_SIZE)

page_addr(s, idx) == s.base + idx * PAGE_SIZE

\* A buddy computed without the parity test: always the next block up.
Mut_get_buddy_index(idx, rank) == idx + pages_for_rank(rank)

get_buddy_index(idx, rank) ==
    LET pages == pages_for_rank(rank)
        block_idx == CDiv(idx, pages)
    IN  IF CMod(block_idx, 2) = 0 THEN idx + pages ELSE idx - pages

\* ------------------------------------------------- memory and the tables
\* The allocator state as one record, so that a call is a function on it.
Cur == [base |-> base_addr, total |-> total_pages, fl |-> free_lists,
        rm |-> page_rank_map, al |-> page_allocated, mem |-> mem, halt |-> halt]

\* The bytes the caller handed over: [base, base + total * PAGE_SIZE).
InRegion(s, a) == a >= s.base /\ a < s.base + s.total * PAGE_SIZE

Fault(s, why) == IF s.halt = "no" THEN [s EXCEPT !.halt = why] ELSE s

\* block->next = v, for the block at address a.  A store outside the region
\* is undefined behaviour.
StoreNext(s, a, v) ==
    IF InRegion(s, a)
    THEN [s EXCEPT !.mem = (a :> v) @@ s.mem]
    ELSE Fault(s, "oob-store")

\* Is block->next readable: a word of the region that was written before.
Readable(s, a) == InRegion(s, a) /\ a \in DOMAIN s.mem

\* page_rank_map[idx + i] = rank; page_allocated[idx + i] = a; for i < pages.
\* An index outside the arrays is undefined behaviour.
MarkPages(s, idx, pages, rank, a) ==
    LET hit(i) == i >= idx /\ i < idx + pages
        t == [s EXCEPT !.rm = [i \in DOMAIN s.rm |-> IF hit(i) THEN rank ELSE s.rm[i]],
                       !.al = [i \in DOMAIN s.al |-> IF hit(i) THEN a ELSE s.al[i]]]
    IN  IF idx < 0 \/ idx + pages > MAX_PAGES THEN Fault(t, "oob-table") ELSE t

\* The two stores in the other order: free_lists[rank] = block; block->next = free_lists[rank];
Mut_PushFree(s, idx, rank) ==
    LET a == page_addr(s, idx)
        t == StoreNext(s, a, a)
    IN  [t EXCEPT !.fl[rank] = a]

\* block->next = free_lists[rank]; free_lists[rank] = block;
PushFree(s, idx, rank) ==
    LET a == page_addr(s, idx)
        t == StoreNext(s, a, s.fl[rank])
    IN  [t EXCEPT !.fl[rank] = a]

\* ------------------------------------------------------------- init_page
RECURSIVE FitRank(_, _)
\* The inner while of init_page: the largest rank whose block fits in room.
FitRank(rank, room) ==
    IF pages_for_rank(rank) > room THEN FitRank(rank - 1, room) ELSE rank

RECURSIVE Mut_InitBlocks(_, _)
\* A block loop whose rank search starts one rank too low.
Mut_InitBlocks(s, idx) ==
    IF idx < s.total
    THEN LET rank == FitRank(MAX_RANK - 1, s.total - idx)
             pages == pages_for_rank(rank)
         IN  Mut_InitBlocks(MarkPages(PushFree(s, idx, rank), idx, pages, rank, 0),
                            idx + pages)
    ELSE s

RECURSIVE InitBlocks(_, _)
InitBlocks(s, idx) ==
    IF idx < s.total
    THEN LET rank == FitRank(MAX_RANK, s.total - idx)
             pages == pages_for_rank(rank)
         IN  InitBlocks(MarkPages(PushFree(s, idx, rank), idx, pages, rank, 0),
                        idx + pages)
    ELSE s

init_page(s, p, pgcount) ==
    LET s0 == [s EXCEPT !.base = p, !.total = pgcount,
                        !.fl = [i \in 0..MAX_RANK |-> NULL]]
        s1 == IF pgcount > 0 THEN MarkPages(s0, 0, pgcount, 0, 0) ELSE s0
    IN  [s |-> InitBlocks(s1, 0), err |-> "OK", val |-> 0]

\* ----------------------------------------------------------- alloc_pages
RECURSIVE Mut_ScanRank(_, _)
\* A rank scan that stops one rank early: < MAX_RANK for <= MAX_RANK.
Mut_ScanRank(s, current_rank) ==
    IF current_rank < MAX_RANK /\ s.fl[current_rank] = NULL
    THEN Mut_ScanRank(s, current_rank + 1)
    ELSE current_rank

RECURSIVE ScanRank(_, _)
\* while (current_rank <= MAX_RANK && free_lists[current_rank] == NULL) current_rank++;
ScanRank(s, current_rank) ==
    IF current_rank <= MAX_RANK /\ s.fl[current_rank] = NULL
    THEN ScanRank(s, current_rank + 1)
    ELSE current_rank

RECURSIVE Mut_SplitBlock(_, _, _, _)
\* A split loop that links the upper half but does not re-mark its pages.
Mut_SplitBlock(s, idx, current_rank, rank) ==
    IF current_rank > rank
    THEN LET c == current_rank - 1
             buddy_idx == idx + pages_for_rank(c)
         IN  Mut_SplitBlock(PushFree(s, buddy_idx, c), idx, c, rank)
    ELSE s

RECURSIVE SplitBlock(_, _, _, _)
\* The split loop: the upper half of the held block goes to the free list of
\* the next lower rank, the lower half is kept.
SplitBlock(s, idx, current_rank, rank) ==
    IF current_rank > rank
    THEN LET c == current_rank - 1
             buddy_idx == idx + pages_for_rank(c)
             buddy_pages == pages_for_rank(c)
         IN  SplitBlock(MarkPages(PushFree(s, buddy_idx, c), buddy_idx, buddy_pages, c, 0),
                        idx, c, rank)
    ELSE s

\* alloc_pages that empties the list it takes from instead of advancing it.
Mut_alloc_pages_pop(s, rank) ==
    IF rank < 1 \/ rank > MAX_RANK
    THEN [s |-> s, err |-> "EINVAL", val |-> 0]
    ELSE LET current_rank == ScanRank(s, rank) IN
         IF current_rank > MAX_RANK
         THEN [s |-> s, err |-> "ENOSPC", val |-> 0]
         ELSE LET block == s.fl[current_rank] IN
              IF ~Readable(s, block)
              THEN [s |-> Fault(s, "bad-load"), err |-> "OK", val |-> block]
              ELSE LET s1 == [s EXCEPT !.fl[current_rank] = NULL]
                       idx == page_index(s1, block)
                       s2 == SplitBlock(s1, idx, current_rank, rank)
                       s3 == MarkPages(s2, idx, pages_for_rank(rank), rank, 1)
                   IN  [s |-> s3, err |-> "OK", val |-> block]

\* alloc_pages whose upper rank test is off by one: rank > MAX_RANK + 1.
Mut_alloc_pages_bound(s, rank) ==
    IF rank < 1 \/ rank > MAX_RANK + 1
    THEN [s |-> s, err |-> "EINVAL", val |-> 0]
    ELSE LET current_rank == ScanRank(s, rank) IN
         IF current_rank > MAX_RANK
         THEN [s |-> s, err |-> "ENOSPC", val |-> 0]
         ELSE LET block == s.fl[current_rank] IN
              IF ~Readable(s, block)
              THEN [s |-> Fault(s, "bad-load"), err |-> "OK", val |-> block]
              ELSE LET s1 == [s EXCEPT !.fl[current_rank] = s.mem[block]]
                       idx == page_index(s1, block)
                       s2 == SplitBlock(s1, idx, current_rank, rank)
                       s3 == MarkPages(s2, idx, pages_for_rank(rank), rank, 1)
                   IN  [s |-> s3, err |-> "OK", val |-> block]

\* alloc_pages marking the block with the rank it was found at, not the
\* rank asked for.
Mut_alloc_pages(s, rank) ==
    IF rank < 1 \/ rank > MAX_RANK
    THEN [s |-> s, err |-> "EINVAL", val |-> 0]
    ELSE LET current_rank == ScanRank(s, rank) IN
         IF current_rank > MAX_RANK
         THEN [s |-> s, err |-> "ENOSPC", val |-> 0]
         ELSE LET block == s.fl[current_rank] IN
              IF ~Readable(s, block)
              THEN [s |-> Fault(s, "bad-load"), err |-> "OK", val |-> block]
              ELSE LET s1 == [s EXCEPT !.fl[current_rank] = s.mem[block]]
                       idx == page_index(s1, block)
                       s2 == SplitBlock(s1, idx, current_rank, rank)
                       s3 == MarkPages(s2, idx, pages_for_rank(rank), current_rank, 1)
                   IN  [s |-> s3, err |-> "OK", val |-> block]

alloc_pages(s, rank) ==
    IF rank < 1 \/ rank > MAX_RANK
    THEN [s |-> s, err |-> "EINVAL", val |-> 0]
    ELSE LET current_rank == ScanRank(s, rank) IN
         IF current_rank > MAX_RANK
         THEN [s |-> s, err |-> "ENOSPC", val |-> 0]
         ELSE LET block == s.fl[current_rank] IN
              IF ~Readable(s, block)
              THEN [s |-> Fault(s, "bad-load"), err |-> "OK", val |-> block]
              ELSE LET s1 == [s EXCEPT !.fl[current_rank] = s.mem[block]]
                       idx == page_index(s1, block)
                       s2 == SplitBlock(s1, idx, current_rank, rank)
                       s3 == MarkPages(s2, idx, pages_for_rank(rank), rank, 1)
                   IN  [s |-> s3, err |-> "OK", val |-> block]

\* ---------------------------------------------------------- return_pages
\* A chain of n distinct nodes ends within n steps; a walk that takes more
\* is going round a cycle and never ends.
Fuel(s) == Cardinality(DOMAIN s.mem) + 1

RECURSIVE Mut_Unlink(_, _, _, _, _)
\* A removal that stores through &free_lists[rank] whatever prev is.
Mut_Unlink(s, rank, buddy_idx, slot, fuel) ==
    LET cur == IF slot = NULL THEN s.fl[rank] ELSE s.mem[slot] IN
    IF cur = NULL THEN [s |-> s, found |-> FALSE]
    ELSE IF ~Readable(s, cur) THEN [s |-> Fault(s, "bad-load"), found |-> FALSE]
    ELSE IF page_index(s, cur) = buddy_idx
    THEN [s |-> [s EXCEPT !.fl[rank] = s.mem[cur]], found |-> TRUE]
    ELSE IF fuel = 0 THEN [s |-> Fault(s, "loop"), found |-> FALSE]
    ELSE Mut_Unlink(s, rank, buddy_idx, cur, fuel - 1)

RECURSIVE Unlink(_, _, _, _, _)
\* The removal of the buddy from free list `rank'.  slot is the place prev
\* points at: NULL for &free_lists[rank], else the node whose next it is.
Unlink(s, rank, buddy_idx, slot, fuel) ==
    LET cur == IF slot = NULL THEN s.fl[rank] ELSE s.mem[slot] IN
    IF cur = NULL THEN [s |-> s, found |-> FALSE]
    ELSE IF ~Readable(s, cur) THEN [s |-> Fault(s, "bad-load"), found |-> FALSE]
    ELSE IF page_index(s, cur) = buddy_idx
    THEN [s |-> IF slot = NULL THEN [s EXCEPT !.fl[rank] = s.mem[cur]]
                ELSE [s EXCEPT !.mem[slot] = s.mem[cur]],
          found |-> TRUE]
    ELSE IF fuel = 0 THEN [s |-> Fault(s, "loop"), found |-> FALSE]
    ELSE Unlink(s, rank, buddy_idx, cur, fuel - 1)

\* A merge loop that never merges: the block goes back at its own rank.
Mut_MergeLoop(s, idx, rank) == [s |-> s, idx |-> idx, rank |-> rank, miss |-> FALSE]

RECURSIVE Mut_MergeLoopEdge(_, _, _)
\* A merge loop whose range test is off by one: >= for > in
\* buddy_idx + pages > total_pages.
Mut_MergeLoopEdge(s, idx, rank) ==
    LET stop == [s |-> s, idx |-> idx, rank |-> rank, miss |-> FALSE] IN
    IF ~(rank < MAX_RANK) THEN stop
    ELSE LET buddy_idx == get_buddy_index(idx, rank)
             pages == pages_for_rank(rank)
         IN  IF buddy_idx < 0 \/ buddy_idx >= s.total THEN stop
             ELSE IF buddy_idx + pages >= s.total THEN stop
             ELSE IF s.al[buddy_idx] # 0 \/ s.rm[buddy_idx] # rank THEN stop
             ELSE LET u == Unlink(s, rank, buddy_idx, NULL, Fuel(s)) IN
                  IF ~u.found THEN [stop EXCEPT !.s = u.s, !.miss = TRUE]
                  ELSE Mut_MergeLoopEdge(u.s, IF buddy_idx < idx THEN buddy_idx ELSE idx,
                                         rank + 1)

RECURSIVE Mut_MergeLoopShort(_, _, _)
\* A merge loop that stops one rank early: while (rank < MAX_RANK - 1).
Mut_MergeLoopShort(s, idx, rank) ==
    LET stop == [s |-> s, idx |-> idx, rank |-> rank, miss |-> FALSE] IN
    IF ~(rank < MAX_RANK - 1) THEN stop
    ELSE LET buddy_idx == get_buddy_index(idx, rank)
             pages == pages_for_rank(rank)
         IN  IF buddy_idx < 0 \/ buddy_idx >= s.total THEN stop
             ELSE IF buddy_idx + pages > s.total THEN stop
             ELSE IF s.al[buddy_idx] # 0 \/ s.rm[buddy_idx] # rank THEN stop
             ELSE LET u == Unlink(s, rank, buddy_idx, NULL, Fuel(s)) IN
                  IF ~u.found THEN [stop EXCEPT !.s = u.s, !.miss = TRUE]
                  ELSE Mut_MergeLoopShort(u.s, IF buddy_idx < idx THEN buddy_idx ELSE idx,
                                          rank + 1)

RECURSIVE Mut_MergeLoopIdx(_, _, _)
\* A merge loop that keeps idx after a merge instead of the lower index.
Mut_MergeLoopIdx(s, idx, rank) ==
    LET stop == [s |-> s, idx |-> idx, rank |-> rank, miss |-> FALSE] IN
    IF ~(rank < MAX_RANK) THEN stop
    ELSE LET buddy_idx == get_buddy_index(idx, rank)
             pages == pages_for_rank(rank)
         IN  IF buddy_idx < 0 \/ buddy_idx >= s.total THEN stop
             ELSE IF buddy_idx + pages > s.total THEN stop
             ELSE IF s.al[buddy_idx] # 0 \/ s.rm[buddy_idx] # rank THEN stop
             ELSE LET u == Unlink(s, rank, buddy_idx, NULL, Fuel(s)) IN
                  IF ~u.found THEN [stop EXCEPT !.s = u.s, !.miss = TRUE]
                  ELSE Mut_MergeLoopIdx(u.s, idx, rank + 1)

RECURSIVE MergeLoop(_, _, _)
\* while (rank < MAX_RANK) { ... }: the state, index and rank it ends with;
\* miss tells that it ended at if (!found) break.
MergeLoop(s, idx, rank) ==
    LET stop == [s |-> s, idx |-> idx, rank |-> rank, miss |-> FALSE] IN
    IF ~(rank < MAX_RANK) THEN stop
    ELSE LET buddy_idx == get_buddy_index(idx, rank)
             pages == pages_for_rank(rank)
         IN  IF buddy_idx < 0 \/ buddy_idx >= s.total THEN stop
             ELSE IF buddy_idx + pages > s.total THEN stop
             ELSE IF s.al[buddy_idx] # 0 \/ s.rm[buddy_idx] # rank THEN stop
             ELSE LET u == Unlink(s, rank, buddy_idx, NULL, Fuel(s)) IN
                  IF ~u.found THEN [stop EXCEPT !.s = u.s, !.miss = TRUE]
                  ELSE MergeLoop(u.s, IF buddy_idx < idx THEN buddy_idx ELSE idx, rank + 1)

\* return_pages without the test that p is a multiple of PAGE_SIZE from base.
Mut_return_pages_unaligned(s, p) ==
    LET reject == [s |-> s, err |-> "EINVAL", val |-> 0] IN
    IF p = NULL \/ p < s.base \/ p >= s.base + s.total * PAGE_SIZE THEN reject
    ELSE LET idx == page_index(s, p) IN
         IF idx < 0 \/ idx >= s.total THEN reject
         ELSE IF s.al[idx] = 0 THEN reject
         ELSE LET rank == s.rm[idx] IN
              IF rank < 1 \/ rank > MAX_RANK THEN reject
              ELSE LET m == MergeLoop(s, idx, rank)
                       s1 == PushFree(m.s, m.idx, m.rank)
                       s2 == MarkPages(s1, m.idx, pages_for_rank(m.rank), m.rank, 0)
                   IN  [s |-> s2, err |-> "OK", val |-> 0]

\* return_pages without the test of page_allocated[idx].
Mut_return_pages(s, p) ==
    LET reject == [s |-> s, err |-> "EINVAL", val |-> 0] IN
    IF p = NULL \/ p < s.base \/ p >= s.base + s.total * PAGE_SIZE THEN reject
    ELSE LET idx == page_index(s, p) IN
         IF idx < 0 \/ idx >= s.total THEN reject
         ELSE IF CMod(p - s.base, PAGE_SIZE) # 0 THEN reject
         ELSE LET rank == s.rm[idx] IN
              IF rank < 1 \/ rank > MAX_RANK THEN reject
              ELSE LET m == MergeLoop(s, idx, rank)
                       s1 == PushFree(m.s, m.idx, m.rank)
                       s2 == MarkPages(s1, m.idx, pages_for_rank(m.rank), m.rank, 0)
                   IN  [s |-> s2, err |-> "OK", val |-> 0]

return_pages(s, p) ==
    LET reject == [s |-> s, err |-> "EINVAL", val |-> 0] IN
    IF p = NULL \/ p < s.base \/ p >= s.base + s.total * PAGE_SIZE THEN reject
    ELSE LET idx == page_index(s, p) IN
         IF idx < 0 \/ idx >= s.total THEN reject
         ELSE IF CMod(p - s.base, PAGE_SIZE) # 0 THEN reject
         ELSE IF s.al[idx] = 0 THEN reject
         ELSE LET rank == s.rm[idx] IN
              IF rank < 1 \/ rank > MAX_RANK THEN reject
              ELSE LET m == MergeLoop(s, idx, rank)
                       s1 == PushFree(m.s, m.idx, m.rank)
                       s2 == MarkPages(s1, m.idx, pages_for_rank(m.rank), m.rank, 0)
                   IN  [s |-> s2, err |-> "OK", val |-> 0]

\* ---------------------------------------------------------------- queries
query_ranks(s, p) ==
    IF p = NULL \/ p < s.base \/ p >= s.base + s.total * PAGE_SIZE
    THEN [s |-> s, err |-> "EINVAL", val |-> 0]
    ELSE LET idx == page_index(s, p) IN
         IF idx < 0 \/ idx >= s.total
         THEN [s |-> s, err |-> "EINVAL", val |-> 0]
         ELSE [s |-> s, err |-> "OK", val |-> s.rm[idx]]

RECURSIVE CountFrom(_, _, _)
\* The counting walk of query_page_counts from node current; -1 stands for
\* a walk that does not end.
CountFrom(s, current, fuel) ==
    IF current = NULL THEN 0
    ELSE IF fuel = 0 \/ ~Readable(s, current) THEN -1
    ELSE LET rest == CountFrom(s, s.mem[current], fuel - 1) IN
         IF rest < 0 THEN -1 ELSE rest + 1

\* A count that advances free_lists[rank] itself instead of a local cursor.
Mut_query_page_counts(s, rank) ==
    IF rank < 1 \/ rank > MAX_RANK
    THEN [s |-> s, err |-> "EINVAL", val |-> 0]
    ELSE LET count == CountFrom(s, s.fl[rank], Fuel(s)) IN
         IF count < 0
         THEN [s |-> Fault(s, "loop"), err |-> "OK", val |-> 0]
         ELSE [s |-> [s EXCEPT !.fl[rank] = NULL], err |-> "OK", val |-> count]

query_page_counts(s, rank) ==
    IF rank < 1 \/ rank > MAX_RANK
    THEN [s |-> s, err |-> "EINVAL", val |-> 0]
    ELSE LET count == CountFrom(s, s.fl[rank], Fuel(s)) IN
         IF count < 0
         THEN [s |-> Fault(s, "loop"), err |-> "OK", val |-> 0]
         ELSE [s |-> s, err |-> "OK", val |-> count]

\* ------------------------------------------------------------ the calls
NoRun == 0 - 1
NoMark == [on |-> FALSE, counts |-> <<>>, since |-> {}]

\* The threads that call the allocator concurrently, and a thread between calls.
Threads == {1, 2}
Idle == [pc |-> "idle", op |-> "none", arg |-> 0, cr |-> 0, block |-> NULL,
         err |-> "OK", val |-> 0, dup |-> FALSE]

\* Static storage is zero before the first call; no page word is written.
Init ==
    /\ base_addr = NULL
    /\ total_pages = 0
    /\ free_lists = [i \in 0..MAX_RANK |-> NULL]
    /\ page_rank_map = [i \in 0..(MAX_PAGES - 1) |-> 0]
    /\ page_allocated = [i \in 0..(MAX_PAGES - 1) |-> 0]
    /\ mem = <<>>
    /\ halt = "no"
    /\ ret = [op |-> "none", p |-> NULL, n |-> 0, err |-> "OK", val |-> 0]
    /\ outstanding = {}
    /\ freed = {}
    /\ ncalls = [init |-> 0, bad |-> 0, total |-> 0]
    /\ allocs1 = NoRun
    /\ mark = NoMark
    /\ thr = [t \in Threads |-> Idle]
    /\ lock = {}

\* The allocator after a call that ended with r, made by a single caller.
Install(r, op, p, n) ==
    /\ UNCHANGED <<thr, lock>>
    /\ base_addr' = r.s.base
    /\ total_pages' = r.s.total
    /\ free_lists' = r.s.fl
    /\ page_rank_map' = r.s.rm
    /\ page_allocated' = r.s.al
    /\ mem' = r.s.mem
    /\ halt' = r.s.halt
    /\ ret' = [op |-> op, p |-> p, n |-> n, err |-> r.err, val |-> r.val]

\* The page addresses of a block handed out.
Held(o) == {o.addr + i * PAGE_SIZE : i \in 0..(pages_for_rank(o.rank) - 1)}
Owned(p) == \E o \in outstanding : o.addr = p
\* A page of an outstanding block that is not the block's own address: the
\* one free the caller's contract forbids and the code does not reject.
Interior(p) == ~Owned(p) /\ \E o \in outstanding : p \in Held(o)

\* The addresses a caller passes: NULL, every page of the region, the page
\* before and the page after it, and an address inside the first and inside
\* the last page.
AddrInputs ==
    IF base_addr = NULL THEN {NULL} \cup Bases
    ELSE {NULL} \cup {base_addr + i * PAGE_SIZE : i \in (-1)..total_pages}
                \cup {base_addr + i * PAGE_SIZE + 8 : i \in {0, total_pages - 1}}

RankInputs == 0..(MAX_RANK + 1)
CountInputs == 1..Min(MaxN, MAX_PAGES)

InitPage(p, pgcount) ==
    /\ halt = "no"
    /\ Install(init_page(Cur, p, pgcount), "init", p, pgcount)
    /\ allocs1' = 0
    /\ UNCHANGED <<outstanding, freed, mark>>

AllocPages(rank) ==
    /\ halt = "no"
    /\ LET r == alloc_pages(Cur, rank)
           ok == r.err = "OK" /\ r.s.halt = "no"
           o == [addr |-> r.val, rank |-> rank]
       IN
       /\ Install(r, "alloc", NULL, rank)
       /\ outstanding' = IF ok THEN outstanding \cup {o} ELSE outstanding
       /\ freed' = IF ok THEN freed \ Held(o) ELSE freed
       /\ mark' = IF ok /\ mark.on THEN [mark EXCEPT !.since = @ \cup {r.val}] ELSE mark
    /\ allocs1' = IF rank = 1 /\ allocs1 # NoRun THEN Min(allocs1 + 1, MAX_PAGES + 1) ELSE NoRun

ReturnPages(p) ==
    /\ halt = "no"
    /\ LET r == return_pages(Cur, p)
           ok == r.err = "OK" /\ r.s.halt = "no"
       IN
       /\ Install(r, "return", p, 0)
       /\ outstanding' = IF ok THEN {o \in outstanding : o.addr # p} ELSE outstanding
       /\ freed' = IF ok THEN freed \cup {p} ELSE freed
       /\ mark' = IF ok /\ mark.on THEN [mark EXCEPT !.since = @ \ {p}] ELSE mark
    /\ allocs1' = NoRun

QueryRanks(p) ==
    /\ halt = "no"
    /\ Install(query_ranks(Cur, p), "rank", p, 0)
    /\ allocs1' = NoRun
    /\ UNCHANGED <<outstanding, freed, mark>>

QueryPageCounts(rank) ==
    /\ halt = "no"
    /\ Install(query_page_counts(Cur, rank), "count", NULL, rank)
    /\ allocs1' = NoRun
    /\ UNCHANGED <<outstanding, freed, mark>>

\* ------------------------------------------------------------- callers
\* A caller that keeps the contract: one init_page with a page count in
\* 1..MAX_PAGES, then allocations, queries, and frees of anything but a page
\* inside a block it holds (frees the code rejects included).
FirstInit ==
    /\ ncalls.init = 0
    /\ \E n \in CountInputs : InitPage(HomeBase, n)
    /\ ncalls' = [ncalls EXCEPT !.init = 1]

Alloc == \E rank \in RankInputs : AllocPages(rank) /\ UNCHANGED ncalls

Free == \E p \in AddrInputs : ~Interior(p) /\ ReturnPages(p) /\ UNCHANGED ncalls

RankOf == \E p \in AddrInputs : QueryRanks(p) /\ UNCHANGED ncalls

FreeCount == \E rank \in RankInputs : QueryPageCounts(rank) /\ UNCHANGED ncalls

Next == FirstInit \/ Alloc \/ Free \/ RankOf \/ FreeCount

Spec == Init /\ [][Next]_vars

\* The same caller, observed over a balanced sequence: at some state the free
\* counts of all ranks are noted, and from then on the only outstanding blocks
\* freed are those handed out since.
FreeCounts(s) == [r \in 1..MAX_RANK |-> query_page_counts(s, r).val]

MarkHere ==
    /\ halt = "no" /\ ncalls.init > 0 /\ ~mark.on
    /\ mark' = [on |-> TRUE, counts |-> FreeCounts(Cur), since |-> {}]
    /\ UNCHANGED <<base_addr, total_pages, free_lists, page_rank_map, page_allocated,
                   mem, halt, ret, outstanding, freed, ncalls, allocs1, thr, lock>>

FreeSince ==
    \E p \in {o.addr : o \in outstanding} :
        /\ mark.on => p \in mark.since
        /\ ReturnPages(p)
        /\ UNCHANGED ncalls

NextRT == FirstInit \/ Alloc \/ FreeSince \/ MarkHere

SpecRT == Init /\ [][NextRT]_vars

\* A caller that may step outside the contract, at most MaxBad times in at
\* most MaxCalls calls: call init_page again, pass it a page count <= 0, or
\* free a page inside a block it holds.
Counted(init, bad) ==
    /\ ncalls.total < MaxCalls
    /\ bad => ncalls.bad < MaxBad
    /\ ncalls' = [init |-> IF init THEN ncalls.init + 1 ELSE ncalls.init,
                  bad |-> IF bad THEN ncalls.bad + 1 ELSE ncalls.bad,
                  total |-> ncalls.total + 1]

AnyInit ==
    \E p \in Bases, n \in (-1)..Min(MaxN, MAX_PAGES) :
        Counted(TRUE, ncalls.init > 0 \/ n <= 0) /\ InitPage(p, n)

AnyAlloc == \E rank \in RankInputs : Counted(FALSE, FALSE) /\ AllocPages(rank)

AnyFree == \E p \in AddrInputs : Counted(FALSE, Interior(p)) /\ ReturnPages(p)

AnyRankOf == \E p \in AddrInputs : Counted(FALSE, FALSE) /\ QueryRanks(p)

AnyFreeCount == \E rank \in RankInputs : Counted(FALSE, FALSE) /\ QueryPageCounts(rank)

NextAny == AnyInit \/ AnyAlloc \/ AnyFree \/ AnyRankOf \/ AnyFreeCount

SpecAny == Init /\ [][NextAny]_vars

\* ------------------------------------------------ concurrent callers
\* Two threads call alloc_pages and return_pages of outstanding blocks on an
\* initialised region.  alloc_pages runs one access of free_lists, of a page
\* word or of the per-page tables at a time; return_pages runs as one step.
\* Each call is made inside one mutual-exclusion region.

\* No region at all: a thread enters whoever is inside.
Mut_CanEnter == TRUE

\* May a thread enter the region: nobody is inside.
CanEnter == lock = {}

\* The allocator's variables become those of s; the single caller's record of
\* its last call stays.
Store(s) ==
    /\ base_addr' = s.base
    /\ total_pages' = s.total
    /\ free_lists' = s.fl
    /\ page_rank_map' = s.rm
    /\ page_allocated' = s.al
    /\ mem' = s.mem
    /\ halt' = s.halt
    /\ UNCHANGED <<ret, freed, ncalls, allocs1, mark>>

\* Thread t goes on with its record changed to rec.
Step(t, rec) == thr' = [thr EXCEPT ![t] = rec]

Running == halt = "no" /\ ncalls.init > 0

\* The upper half split off at rank c from the block a thread holds.
BuddyOf(t) == page_index(Cur, thr[t].block) + pages_for_rank(thr[t].cr)

\* A thread decides to call alloc_pages(rank).
CallAlloc ==
    \E t \in Threads, rank \in RankInputs :
        /\ Running /\ thr[t].pc = "idle"
        /\ Step(t, [Idle EXCEPT !.pc = "wait", !.op = "alloc", !.arg = rank,
                                !.dup = thr[t].dup])
        /\ UNCHANGED <<lock, outstanding>> /\ Store(Cur)

\* A thread decides to call return_pages on an outstanding block no other
\* thread is returning.
CallFree ==
    \E t \in Threads, o \in outstanding :
        /\ Running /\ thr[t].pc = "idle"
        /\ \A u \in Threads : ~(thr[u].op = "free" /\ thr[u].arg = o.addr)
        /\ Step(t, [Idle EXCEPT !.pc = "wait", !.op = "free", !.arg = o.addr,
                                !.dup = thr[t].dup])
        /\ UNCHANGED <<lock, outstanding>> /\ Store(Cur)

\* The thread enters the region and the call starts: alloc_pages tests its
\* rank (EINVAL) and sets current_rank = rank.
Enter ==
    \E t \in Threads :
        /\ Running /\ thr[t].pc = "wait" /\ CanEnter
        /\ lock' = lock \cup {t}
        /\ Step(t, IF thr[t].op = "free" THEN [thr[t] EXCEPT !.pc = "free"]
                   ELSE IF thr[t].arg < 1 \/ thr[t].arg > MAX_RANK
                   THEN [thr[t] EXCEPT !.pc = "done", !.err = "EINVAL"]
                   ELSE [thr[t] EXCEPT !.pc = "scan", !.cr = thr[t].arg])
        /\ UNCHANGED outstanding /\ Store(Cur)

\* One test of while (current_rank <= MAX_RANK && free_lists[current_rank] == NULL),
\* and if (current_rank > MAX_RANK) return ERR_PTR(-ENOSPC).
Scan ==
    \E t \in Threads :
        /\ Running /\ thr[t].pc = "scan"
        /\ Step(t, IF thr[t].cr > MAX_RANK
                   THEN [thr[t] EXCEPT !.pc = "done", !.err = "ENOSPC"]
                   ELSE IF free_lists[thr[t].cr] = NULL
                   THEN [thr[t] EXCEPT !.cr = @ + 1]
                   ELSE [thr[t] EXCEPT !.pc = "pop"])
        /\ UNCHANGED <<lock, outstanding>> /\ Store(Cur)

\* free_block_t *block = free_lists[current_rank];
Pop ==
    \E t \in Threads :
        /\ Running /\ thr[t].pc = "pop"
        /\ Step(t, [thr[t] EXCEPT !.pc = "unlink", !.block = free_lists[thr[t].cr]])
        /\ UNCHANGED <<lock, outstanding>> /\ Store(Cur)

\* free_lists[current_rank] = block->next; a load through a pointer that is
\* NULL or not a written word of the region has no defined outcome.
UnlinkHead ==
    \E t \in Threads :
        /\ Running /\ thr[t].pc = "unlink"
        /\ IF Readable(Cur, thr[t].block)
           THEN /\ Store([Cur EXCEPT !.fl[thr[t].cr] = mem[thr[t].block]])
                /\ Step(t, [thr[t] EXCEPT !.pc = "split"])
           ELSE /\ Store(Fault(Cur, "bad-load"))
                /\ UNCHANGED thr
        /\ UNCHANGED <<lock, outstanding>>

\* while (current_rank > rank) { current_rank--; ...
Split ==
    \E t \in Threads :
        /\ Running /\ thr[t].pc = "split"
        /\ Step(t, IF thr[t].cr > thr[t].arg
                   THEN [thr[t] EXCEPT !.pc = "link", !.cr = @ - 1]
                   ELSE [thr[t] EXCEPT !.pc = "mark"])
        /\ UNCHANGED <<lock, outstanding>> /\ Store(Cur)

\* buddy->next = free_lists[current_rank];
Link ==
    \E t \in Threads :
        /\ Running /\ thr[t].pc = "link"
        /\ Store(StoreNext(Cur, page_addr(Cur, BuddyOf(t)), free_lists[thr[t].cr]))
        /\ Step(t, [thr[t] EXCEPT !.pc = "push"])
        /\ UNCHANGED <<lock, outstanding>>

\* free_lists[current_rank] = buddy;
Push ==
    \E t \in Threads :
        /\ Running /\ thr[t].pc = "push"
        /\ Store([Cur EXCEPT !.fl[thr[t].cr] = page_addr(Cur, BuddyOf(t))])
        /\ Step(t, [thr[t] EXCEPT !.pc = "markfree"])
        /\ UNCHANGED <<lock, outstanding>>

\* The for loop that marks the buddy's pages free at current_rank.
MarkFree ==
    \E t \in Threads :
        /\ Running /\ thr[t].pc = "markfree"
        /\ Store(MarkPages(Cur, BuddyOf(t), pages_for_rank(thr[t].cr), thr[t].cr, 0))
        /\ Step(t, [thr[t] EXCEPT !.pc = "split"])
        /\ UNCHANGED <<lock, outstanding>>

\* The for loop that marks the block's pages allocated; return block.
MarkHeld ==
    \E t \in Threads :
        /\ Running /\ thr[t].pc = "mark"
        /\ Store(MarkPages(Cur, page_index(Cur, thr[t].block),
                           pages_for_rank(thr[t].arg), thr[t].arg, 1))
        /\ Step(t, [thr[t] EXCEPT !.pc = "done", !.val = thr[t].block])
        /\ UNCHANGED <<lock, outstanding>>

\* return_pages(p), whole.
FreeBody ==
    \E t \in Threads :
        /\ Running /\ thr[t].pc = "free"
        /\ LET r == return_pages(Cur, thr[t].arg) IN
           /\ Store(r.s)
           /\ Step(t, [thr[t] EXCEPT !.pc = "done", !.err = r.err])
        /\ UNCHANGED <<lock, outstanding>>

\* The call returns and the thread leaves the region.  dup notes that
\* alloc_pages returned pages of a block that was already outstanding.
Leave ==
    \E t \in Threads :
        /\ Running /\ thr[t].pc = "done"
        /\ lock' = lock \ {t}
        /\ LET o == [addr |-> thr[t].val, rank |-> thr[t].arg]
               got == thr[t].op = "alloc" /\ thr[t].err = "OK"
               gave == thr[t].op = "free" /\ thr[t].err = "OK"
               clash == got /\ \E h \in outstanding : Held(h) \cap Held(o) # {}
           IN
           /\ outstanding' = IF got THEN outstanding \cup {o}
                              ELSE IF gave THEN {h \in outstanding : h.addr # thr[t].arg}
                              ELSE outstanding
           /\ Step(t, [Idle EXCEPT !.dup = thr[t].dup \/ clash])
        /\ Store(Cur)

NextLocked ==
    \/ FirstInit
    \/ CallAlloc \/ CallFree \/ Enter
    \/ Scan \/ Pop \/ UnlinkHead \/ Split \/ Link \/ Push \/ MarkFree \/ MarkHeld
    \/ FreeBody \/ Leave

SpecLocked == Init /\ [][NextLocked]_vars

\* ------------------------------------------------------------ views
RECURSIVE Chain(_, _, _)
\* The nodes of the chain that starts at node, in order.
Chain(s, node, fuel) ==
    IF node = NULL \/ fuel = 0 \/ ~Readable(s, node) THEN <<>>
    ELSE <<node>> \o Chain(s, s.mem[node], fuel - 1)

\* Free list rank as the sequence of block addresses, head first.
ListOf(rank) == Chain(Cur, free_lists[rank], Fuel(Cur))

Ranks == 1..MAX_RANK

\* One record per free-list entry and one per outstanding block.
FreeBlocks ==
    UNION {{[kind |-> "free", rank |-> r, pos |-> k, addr |-> ListOf(r)[k]] :
               k \in 1..Len(ListOf(r))} : r \in Ranks}

HeldBlocks == {[kind |-> "held", rank |-> o.rank, pos |-> 0, addr |-> o.addr] : o \in outstanding}

Blocks == FreeBlocks \cup HeldBlocks

\* Page offset of an address from the base, and whether it is a page address.
Offset(a) == a - base_addr
IsPage(a) == Offset(a) >= 0 /\ Offset(a) % PAGE_SIZE = 0
IndexOf(a) == Offset(a) \div PAGE_SIZE
PagesOf(b) == IndexOf(b.addr)..(IndexOf(b.addr) + pages_for_rank(b.rank) - 1)

Aligned(b) == IsPage(b.addr) /\ IndexOf(b.addr) % pages_for_rank(b.rank) = 0
Inside(b) == IsPage(b.addr) /\ IndexOf(b.addr) + pages_for_rank(b.rank) <= total_pages

\* ------------------------------------------------------------ claims
\* C1: after init_page with 1 <= N <= MAX_PAGES and any calls of a caller that
\* frees only outstanding blocks (rejected frees included), the free-list
\* entries and the outstanding blocks are aligned to their size, and every
\* page index in [0, N) lies in exactly one of them.
C1_BlocksPartitionRegion ==
    ncalls.init > 0 =>
        /\ \A b \in Blocks : Aligned(b) /\ Inside(b)
        /\ \A i \in 0..(total_pages - 1) :
               Cardinality({b \in Blocks : i \in PagesOf(b)}) = 1

C1_Witness ==
    /\ ret.op = "return" /\ ret.err = "OK"
    /\ outstanding # {}
    /\ Cardinality(FreeBlocks) >= 2

\* C2: right after a successful alloc_pages(rank) returning p, query_ranks(p)
\* is rank and p - base is a multiple of 2^(rank-1) * PAGE_SIZE.
C2_AllocRankAndAlignment ==
    (ret.op = "alloc" /\ ret.err = "OK") =>
        /\ query_ranks(Cur, ret.val) = [s |-> Cur, err |-> "OK", val |-> ret.n]
        /\ CMod(ret.val - base_addr, pages_for_rank(ret.n) * PAGE_SIZE) = 0

C2_Witness ==
    /\ ret.op = "alloc" /\ ret.err = "OK"
    /\ ret.n = 2
    /\ ret.val # base_addr

\* C3: over a balanced sequence of alloc_pages and return_pages calls (every
\* block handed out during it is freed once within it, no other block is
\* freed), query_page_counts of every rank ends at the value it started with.
C3_BalancedRoundTrip ==
    (mark.on /\ mark.since = {}) => FreeCounts(Cur) = mark.counts

C3_Witness ==
    /\ mark.on /\ mark.since = {}
    /\ ret.op = "return" /\ ret.err = "OK"
    /\ outstanding # {}
    /\ free_lists[1] # NULL

\* C4: once return_pages(p) has succeeded and no alloc_pages call since has
\* handed out a block containing p, a further return_pages(p) returns -EINVAL
\* and changes neither the free lists nor the per-page tables.
C4_DoubleFreeRejected ==
    \A p \in freed : return_pages(Cur, p) = [s |-> Cur, err |-> "EINVAL", val |-> 0]

C4_Witness ==
    /\ ret.op = "return" /\ ret.err = "EINVAL"
    /\ ret.p \in freed
    /\ outstanding # {}

\* C5: init_page(base, N) with 1 <= N <= MAX_PAGES followed by alloc_pages(1)
\* calls only: the first N succeed and return N distinct pages of the region,
\* the (N+1)-th (and any later one) fails with -ENOSPC.
C5_Exhaustion ==
    (allocs1 # NoRun /\ allocs1 >= 1) =>
        /\ ret.op = "alloc" /\ ret.n = 1
        /\ IF allocs1 <= total_pages
           THEN /\ ret.err = "OK"
                /\ Cardinality(outstanding) = allocs1
                /\ Cardinality({o.addr : o \in outstanding}) = allocs1
                /\ \A o \in outstanding :
                       o.rank = 1 /\ IsPage(o.addr) /\ IndexOf(o.addr) < total_pages
           ELSE ret.err = "ENOSPC" /\ Cardinality(outstanding) = total_pages

C5_Witness ==
    /\ allocs1 = total_pages + 1
    /\ total_pages = 3
    /\ ret.err = "ENOSPC"

\* Index i with the bit of weight size flipped: i XOR size.
XorBit(i, size) == IF (i \div size) % 2 = 1 THEN i - size ELSE i + size

\* C6: for a caller that frees only outstanding blocks, no free list of rank
\* r < MAX_RANK holds both a and a XOR 2^(r-1) when the rank-(r+1) block the
\* two would merge into lies inside [0, N).
C6_NoFreeBuddyPairs ==
    ncalls.init > 0 =>
        \A a \in FreeBlocks, b \in FreeBlocks :
            LET size == pages_for_rank(a.rank)
                i == IndexOf(a.addr)
                lo == i - (i % (2 * size))
            IN  (a.rank < MAX_RANK /\ b.rank = a.rank /\ lo + 2 * size <= total_pages)
                    => IndexOf(b.addr) # XorBit(i, size)

C6_Witness ==
    /\ ret.op = "return" /\ ret.err = "OK"
    /\ ret.p = base_addr + PAGE_SIZE
    /\ page_rank_map[1] = 2
    /\ ListOf(2) = <<base_addr>>
    /\ outstanding # {}

\* C7: for every page-aligned in-range address that return_pages accepts,
\* also a page inside an outstanding block that is not the block's address,
\* every free-list entry afterwards is aligned to its size, lies inside
\* [0, N) and overlaps no other free or outstanding block.
C7_AcceptedFreeKeepsLayout ==
    (ret.op = "return" /\ ret.err = "OK" /\ ncalls.init = 1 /\ total_pages >= 1) =>
        \A b \in FreeBlocks :
            /\ Aligned(b) /\ Inside(b)
            /\ \A c \in Blocks : c # b => PagesOf(b) \cap PagesOf(c) = {}

\* C8: init_page with a page count <= 0 returns an error.
C8_NonPositiveCountRejected ==
    (ret.op = "init" /\ ret.n <= 0) => ret.err # "OK"

\* C9: once init_page has succeeded, an init_page call naming another base or
\* page count returns an error and leaves the region, the free lists, the
\* per-page tables and the outstanding blocks as they were.  Stated for a
\* second call whose own page count is valid (>= 1).
C9_ReinitRejected ==
    [][(/\ ncalls.init >= 1 /\ total_pages >= 1
        /\ ncalls'.init > ncalls.init
        /\ ret'.op = "init" /\ ret'.n >= 1
        /\ <<ret'.p, ret'.n>> # <<base_addr, total_pages>>)
       => (/\ ret'.err # "OK"
           /\ UNCHANGED <<base_addr, total_pages, free_lists, page_rank_map,
                          page_allocated, mem, outstanding>>)]_vars

\* C10: right after init_page(base, N), 1 <= N <= MAX_PAGES, the free blocks
\* are the binary decomposition of N in increasing address order: rank r has
\* one free block iff bit r-1 of N is set, it starts at the sum of the sizes
\* of the higher set bits, its pages are marked free with rank r, and its
\* start is a multiple of its size.
C10_InitIsBinaryDecomposition ==
    (ret.op = "init" /\ ret.n >= 1) =>
        /\ total_pages = ret.n /\ base_addr = ret.p
        /\ \A i \in 0..(total_pages - 1) : page_allocated[i] = 0
        /\ \A r \in Ranks :
               LET size == pages_for_rank(r)
                   bit == (total_pages \div size) % 2
                   start == total_pages - (total_pages % (2 * size))
               IN  /\ query_page_counts(Cur, r) = [s |-> Cur, err |-> "OK", val |-> bit]
                   /\ bit = 1 =>
                          /\ ListOf(r) = <<base_addr + start * PAGE_SIZE>>
                          /\ start % size = 0
                          /\ \A i \in start..(start + size - 1) : page_rank_map[i] = r

C10_Witness ==
    /\ ret.op = "init"
    /\ total_pages = 3
    /\ ListOf(1) = <<base_addr + 2 * PAGE_SIZE>>
    /\ ListOf(2) = <<base_addr>>

\* The allocator's own state: region, free lists, per-page tables, page words.
alloc_state == <<base_addr, total_pages, free_lists, page_rank_map, page_allocated, mem>>

\* C11: alloc_pages(rank) returns -EINVAL when rank < 1 or rank > MAX_RANK,
\* -ENOSPC exactly when rank is valid and every free list of rank >= rank is
\* empty, and succeeds otherwise; an error return changes nothing.
C11_AllocErrors ==
    [][ret'.op = "alloc" =>
         LET rank == ret'.n
             valid == rank >= 1 /\ rank <= MAX_RANK
             empty == \A k \in rank..MAX_RANK : free_lists[k] = NULL
         IN  /\ ~valid => ret'.err = "EINVAL"
             /\ valid => (ret'.err = "ENOSPC" <=> empty)
             /\ (valid /\ ~empty) => (ret'.err = "OK" /\ halt' = "no")
             /\ ret'.err # "OK" => UNCHANGED alloc_state]_vars

C11_Witness ==
    /\ ret.op = "alloc" /\ ret.err = "ENOSPC"
    /\ ret.n = 2
    /\ free_lists[1] # NULL

\* C12: return_pages(p) returns -EINVAL and changes nothing when p is NULL,
\* lies below base or at or after base + N * PAGE_SIZE, is not a multiple of
\* PAGE_SIZE from base, or names a page whose allocated flag is 0.
C12_FreeRejections ==
    [][ret'.op = "return" =>
         LET p == ret'.p
             outside == p = NULL \/ p < base_addr \/ p >= base_addr + total_pages * PAGE_SIZE
             unaligned == (p - base_addr) % PAGE_SIZE # 0
             unallocated == page_allocated[(p - base_addr) \div PAGE_SIZE] = 0
         IN  (outside \/ unaligned \/ unallocated)
                 => (ret'.err = "EINVAL" /\ UNCHANGED alloc_state)]_vars

C12_Witness ==
    /\ ret.op = "return" /\ ret.err = "EINVAL"
    /\ ret.p = base_addr + 8
    /\ page_allocated[0] = 1

Requery ==
    IF ret.op = "rank" THEN query_ranks(Cur, ret.p) ELSE query_page_counts(Cur, ret.n)

\* C14: query_ranks and query_page_counts are read-only for every argument:
\* the call leaves the region, the free lists and both tables unchanged, and
\* the same query repeated at once returns the same result.
C14_QueriesReadOnly ==
    [][ret'.op \in {"rank", "count"} =>
         /\ UNCHANGED alloc_state
         /\ halt' = "no"
         /\ Requery'.s = Cur'
         /\ Requery'.err = ret'.err /\ Requery'.val = ret'.val]_vars

C14_Witness ==
    /\ ret.op = "count" /\ ret.err = "OK" /\ ret.val = 2
    /\ outstanding # {}

\* The smallest rank >= rank whose free list is not empty (MAX_RANK + 1 if none).
FirstFit(rank) ==
    IF \E k \in rank..MAX_RANK : free_lists[k] # NULL
    THEN CHOOSE k \in rank..MAX_RANK :
             free_lists[k] # NULL /\ \A j \in rank..(k - 1) : free_lists[j] = NULL
    ELSE MAX_RANK + 1

\* All free lists, by rank.
Lists == [r \in Ranks |-> ListOf(r)]

\* Whether n is a power of two.
PowerOfTwo(n) == \E e \in 0..MAX_RANK : n = 2 ^ e

\* C15: a successful alloc_pages(rank) takes the head block (index a) of the
\* non-empty free list of smallest rank k >= rank, returns the address of a,
\* pushes for each c in rank..k-1 exactly one block of rank c at a + 2^(c-1)
\* onto the head of list c, and changes no other list entry and no page
\* outside [a, a + 2^(k-1)); so repeated alloc_pages(1) on a fresh
\* power-of-two region returns pages 0, 1, 2, ... in order.
C15_AllocEffect ==
    [][(ret'.op = "alloc" /\ ret'.err = "OK") =>
         \E pre \in {Lists}, post \in {Lists'}, rank \in {ret'.n} :
         \E k \in {FirstFit(rank)} :
         /\ k <= MAX_RANK
         /\ \E block \in {Head(pre[k])}, a \in {IndexOf(Head(pre[k]))} :
             /\ ret'.val = block
             /\ post[k] = Tail(pre[k])
             /\ \A c \in rank..(k - 1) :
                   post[c] = <<block + pages_for_rank(c) * PAGE_SIZE>> \o pre[c]
             /\ \A c \in Ranks : (c < rank \/ c > k) => post[c] = pre[c]
             /\ \A i \in 0..(total_pages - 1) :
                   (i < a \/ i >= a + pages_for_rank(k)) =>
                       /\ page_rank_map'[i] = page_rank_map[i]
                       /\ page_allocated'[i] = page_allocated[i]
             /\ \A w \in DOMAIN mem' :
                   (w < block \/ w >= block + pages_for_rank(k) * PAGE_SIZE) =>
                       (w \in DOMAIN mem /\ mem'[w] = mem[w])
             /\ (PowerOfTwo(total_pages) /\ allocs1' >= 1) =>
                   ret'.val = base_addr + (allocs1' - 1) * PAGE_SIZE]_vars

C15_Witness ==
    /\ ret.op = "alloc" /\ ret.err = "OK" /\ ret.n = 1
    /\ allocs1 = 3
    /\ ret.val = base_addr + 2 * PAGE_SIZE
    /\ ListOf(1) = <<base_addr + 3 * PAGE_SIZE>>

\* The first page of the size-aligned block of rank c that contains page i.
AlignDown(i, c) == i - (i % pages_for_rank(c))

\* The pages of the aligned rank-c block that contains page i.
Around(i, c) == AlignDown(i, c)..(AlignDown(i, c) + pages_for_rank(c) - 1)

\* The sequence seq without the entries equal to x.
Without(seq, x) == SelectSeq(seq, LAMBDA y : y # x)

\* C16: a successful return_pages of an outstanding rank-r0 block at index a
\* merges only with address-computed buddies, and maximally: for each rank c
\* passed the partner removed is the block at (current index XOR 2^(c-1)),
\* in range, free and of rank c; the merged block starts at the lower index;
\* the one block inserted has the largest rank R in r0..MAX_RANK whose
\* aligned block around a lies in [0, N) and is all free after the call.
\* After init(base, 4), four alloc(1) and four frees, list 3 holds one block
\* and lists 1 and 2 are empty; after freeing pages 1 and 0 only, a rank-2
\* block at [0, 2) exists.
C16_MergeEffect ==
    [][(ret'.op = "return" /\ ret'.err = "OK") =>
         \E pre \in {Lists}, post \in {Lists'}, a \in {IndexOf(ret'.p)} :
         \E r0 \in {o.rank : o \in {h \in outstanding : h.addr = ret'.p}} :
         \E R \in r0..MAX_RANK :
         LET fits(c) == /\ Around(a, c) \subseteq 0..(total_pages - 1)
                        /\ \A i \in Around(a, c) : page_allocated'[i] = 0
             page(i) == base_addr + i * PAGE_SIZE
         IN  /\ fits(R) /\ \A d \in (R + 1)..MAX_RANK : ~fits(d)
             /\ post[R] = <<page(AlignDown(a, R))>> \o pre[R]
             /\ \A c \in r0..(R - 1) :
                   LET partner == XorBit(AlignDown(a, c), pages_for_rank(c)) IN
                   /\ partner >= 0 /\ partner + pages_for_rank(c) <= total_pages
                   /\ page_allocated[partner] = 0
                   /\ page_rank_map[partner] = c
                   /\ \E n \in 1..Len(pre[c]) : pre[c][n] = page(partner)
                   /\ post[c] = Without(pre[c], page(partner))
                   /\ Len(post[c]) = Len(pre[c]) - 1
             /\ \A c \in Ranks : (c < r0 \/ c > R) => post[c] = pre[c]
             /\ \A i \in 0..(total_pages - 1) :
                   IF i \in Around(a, R)
                   THEN page_rank_map'[i] = R /\ page_allocated'[i] = 0
                   ELSE /\ page_rank_map'[i] = page_rank_map[i]
                        /\ page_allocated'[i] = page_allocated[i]
             /\ (total_pages = 4 /\ freed' = {page(i) : i \in 0..3}) =>
                   /\ Len(post[3]) = 1
                   /\ post[1] = <<>> /\ post[2] = <<>>
             /\ (total_pages = 4 /\ freed' = {page(0), page(1)} /\ Cardinality(outstanding') = 2) =>
                   post[2] = <<page(0)>>]_vars

C16_Witness ==
    /\ ret.op = "return" /\ ret.err = "OK"
    /\ total_pages = 4
    /\ ret.p = base_addr + 2 * PAGE_SIZE
    /\ freed = {base_addr + i * PAGE_SIZE : i \in 0..3}
    /\ ListOf(3) = <<base_addr>>
    /\ ListOf(1) = <<>> /\ ListOf(2) = <<>>

\* The chain of free list rank is finite, acyclic and NULL-terminated: the
\* counting walk ends, no node repeats, and the last node's next is NULL.
WellFormedList(rank) ==
    LET l == ListOf(rank) IN
    /\ CountFrom(Cur, free_lists[rank], Fuel(Cur)) = Len(l)
    /\ \A m, n \in 1..Len(l) : l[m] = l[n] => m = n
    /\ \A n \in 1..Len(l) : Readable(Cur, l[n])
    /\ l # <<>> => mem[l[Len(l)]] = NULL

\* C17: every call terminates from every state a well-behaved caller reaches:
\* no call is left unfinished, the rank scan, split and merge loops end within
\* MAX_RANK, and every free list is a finite, acyclic, NULL-terminated chain.
C17_CallsTerminate ==
    /\ halt = "no"
    /\ \A r \in Ranks : WellFormedList(r)
    /\ \A rank \in RankInputs :
          /\ alloc_pages(Cur, rank).s.halt = "no"
          /\ query_page_counts(Cur, rank).s.halt = "no"
          /\ (rank >= 1 /\ rank <= MAX_RANK) =>
                ScanRank(Cur, rank) \in rank..(MAX_RANK + 1)
    /\ \A p \in AddrInputs :
          /\ query_ranks(Cur, p).s.halt = "no"
          /\ ~Interior(p) => return_pages(Cur, p).s.halt = "no"
    /\ \A o \in outstanding :
          MergeLoop(Cur, IndexOf(o.addr), o.rank).rank \in o.rank..MAX_RANK
    /\ ncalls.init = 0 =>
          \A pgcount \in CountInputs : init_page(Cur, HomeBase, pgcount).s.halt = "no"

C17_Witness ==
    /\ ret.op = "return" /\ ret.err = "OK"
    /\ total_pages = 4
    /\ ret.p = base_addr + PAGE_SIZE
    /\ ListOf(1) = <<base_addr + 2 * PAGE_SIZE>>
    /\ ListOf(2) = <<base_addr>>
    /\ Cardinality(outstanding) = 1

\* Is page index b an entry of free list rank.
Listed(b, rank) ==
    \E n \in 1..Len(ListOf(rank)) : ListOf(rank)[n] = base_addr + b * PAGE_SIZE

ListsIn(s) == [r \in Ranks |-> Chain(s, s.fl[r], Fuel(s))]

\* C20: alloc_pages(rank) returning p followed at once by return_pages(p)
\* restores every free list (same blocks, same order) and both per-page
\* tables, and a following alloc_pages(rank) returns p again.
C20_AllocFreeIdentity ==
    \A rank \in Ranks :
        LET r1 == alloc_pages(Cur, rank)
            r2 == return_pages(r1.s, r1.val)
            r3 == alloc_pages(r2.s, rank)
        IN  (halt = "no" /\ r1.err = "OK") =>
                /\ r2.err = "OK" /\ r2.s.halt = "no"
                /\ ListsIn(r2.s) = ListsIn(Cur)
                /\ r2.s.rm = page_rank_map
                /\ r2.s.al = page_allocated
                /\ r2.s.base = base_addr /\ r2.s.total = total_pages
                /\ r3.err = "OK" /\ r3.val = r1.val

C20_Witness ==
    /\ ret.op = "return" /\ ret.err = "OK"
    /\ ret.p = base_addr + 2 * PAGE_SIZE
    /\ Cardinality(outstanding) = 2
    /\ ListOf(1) = <<>>
    /\ ListOf(2) = <<base_addr + 2 * PAGE_SIZE>>
    /\ alloc_pages(Cur, 1).val = ret.p

\* No call is under way.
Quiescent == \A t \in Threads : thr[t].pc \in {"idle", "wait"}

\* C18: with every call inside one mutual-exclusion region, two threads
\* calling alloc_pages and return_pages never get the same block twice and
\* never lose a free-list entry: between calls every page lies in exactly one
\* free or outstanding block.  (Without the region such a state is reachable.)
C18_SerializedCallsSafe ==
    /\ halt = "no"
    /\ \A t \in Threads : ~thr[t].dup
    /\ \A t, u \in Threads :
          (t # u /\ thr[t].pc = "done" /\ thr[u].pc = "done"
                 /\ thr[t].op = "alloc" /\ thr[u].op = "alloc"
                 /\ thr[t].err = "OK" /\ thr[u].err = "OK") => thr[t].val # thr[u].val
    /\ (Quiescent /\ ncalls.init > 0) =>
          \A i \in 0..(total_pages - 1) :
              Cardinality({b \in Blocks : i \in PagesOf(b)}) = 1

C18_Witness ==
    /\ thr[1].pc = "push" /\ thr[1].op = "alloc" /\ thr[1].arg = 1
    /\ thr[2].pc = "wait" /\ thr[2].op = "alloc"
    /\ lock = {1}
    /\ outstanding # {}

====
